---- MODULE Spec2Model ----
(***************************************************************************)
(* Model of the NeuroTrace telemetry client (src/src/TelemetryManager.ts)  *)
(* and of its ingestion server (src/Telemetry/telemetry_server.js).        *)
(*                                                                         *)
(* The manager runs on one event loop.  Every `await` on the file system,  *)
(* the key-value store or the network is a point where the running        *)
(* handler is suspended and any other handler may run.  Each suspended     *)
(* invocation is a task with a program counter (pc) and its locals.  One   *)
(* action is one run of a handler from a resumption to its next await:     *)
(* the effect of the awaited operation lands when the task resumes.        *)
(* Awaits that have no effect on the modelled state (ensureStorageDir,     *)
(* response.json) are merged with the await that follows or precedes them. *)
(*                                                                         *)
(* Time is in milliseconds.  A timer fires exactly when it is due; time    *)
(* advances either to the next due timer or by Latency.                    *)
(***************************************************************************)
EXTENDS Integers, Sequences, FiniteSets, Bags, TLC

\* ------------------------------------------------------------------ bounds
MaxCalls == 1       \* calls from outside in one run (trackEvent, updateTelemetryStatus,
                    \* manualSubmit) and awaited operations that take time
Latency == 1000     \* duration of an awaited operation that takes time
OtherRequests == 2  \* requests of the second caller that pass in one of its windows
MaxRequests == 2    \* requests sent to the server when their bodies are looked at

\* ------------------------------------------------------- program constants
Hour == 60 * 60 * 1000
SUBMISSION_INTERVAL == 24 * 60 * 60 * 1000
RETRY_DELAYS == <<30 * 60 * 1000, 2 * 60 * 60 * 1000, 6 * 60 * 60 * 1000>>
MAX_DATA_AGE == 7 * 24 * 60 * 60 * 1000
DayMs == 24 * 60 * 60 * 1000

EventTypes == {"thought_created", "graph_opened", "suggest_related_used",
               "semantic_search_used", "semantic_ai_graph_used"}
\* the event types the calls of a run are drawn from
TrackTypes == {"thought_created", "graph_opened"}
\* the answers of the ingestion endpoint a run draws from; 0 is a request that
\* fails without an answer (fetch rejects)
Statuses == {0, 200, 400, 429, 500}

\* The first activation of an installation that was enabled in an earlier
\* session, and the instant the process starts.
EarlierActivation == 9 * DayMs + 3 * Hour
StartTime == EarlierActivation + 30 * Hour
\* The clock stops after the second regular instant of the schedule.
Horizon == EarlierActivation + 3 * SUBMISSION_INTERVAL + MaxCalls * Latency

VARIABLES
    now,              \* Date.now()
    isEnabled,        \* this.isEnabled
    firstActivation,  \* globalState 'telemetryFirstActivation', 0 when absent
    file,             \* the content of telemetry_data.json
    activeDays,       \* this.activeDays
    retryCount,       \* this.retryCount
    submissionTimer,  \* this.submissionTimer: "null", "live" (its timer is pending)
                      \* or "stale" (its timer has fired)
    retryTimer,       \* this.retryTimer, likewise
    timers,           \* the bag of the timers pending in the runtime; `held` says
                      \* which handle refers to the timer: "s", "r" or "-" (none)
    tasks,            \* the bag of the suspended handler invocations
    calls,            \* the calls left to the run, the trackEvent calls that returned
                      \* early and those that went on to append
    cycle             \* the submission cycle since the last regular attempt: the
                      \* delays of the retry timers armed in it, while it is `pure`
                      \* (timer-driven, every probe failed, nothing pending at its start)

\* The ingestion server, one process with its own clock.
VARIABLES
    clock,            \* Date.now() of the server
    requestCounts,    \* the Map requestCounts: caller identity -> {count, windowStart}
    files,            \* the record files in DATA_DIR, by the random part of their name
    handled,          \* the request handled last, the answer it got and the
                      \* step of the pipeline it reached
    quota,            \* per identity: when its current window was opened, the
                      \* requests passed in it, whether one was rejected in it,
                      \* and whether one was rejected in the window before it
    burst             \* per identity: the requests passed since `from`, an instant
                      \* less than RATE_WINDOW before clock

clientVars == <<now, isEnabled, firstActivation, file, activeDays, retryCount,
                submissionTimer, retryTimer, timers, tasks, calls, cycle>>
serverVars == <<clock, requestCounts, files, handled, quota, burst>>
vars == <<now, isEnabled, firstActivation, file, activeDays, retryCount,
          submissionTimer, retryTimer, timers, tasks, calls, cycle,
          clock, requestCounts, files, handled, quota, burst>>

\* The server after start: no caller seen, no record written, nothing handled.
Identities == {"client-a", "client-b"}
NoAnswer == [ip |-> "", req |-> [json |-> FALSE, body |-> [t |-> "null"]], status |-> 0,
             success |-> FALSE, error |-> "", eventsProcessed |-> 0, fileId |-> <<>>,
             reached |-> ""]
InitServer ==
    /\ clock = 0
    /\ requestCounts = <<>>
    /\ files = <<>>
    /\ handled = NoAnswer
    /\ quota = [ip \in Identities |->
                   [open |-> FALSE, opened |-> 0, passed |-> 0,
                    rejected |-> FALSE, after |-> FALSE]]
    /\ burst = [ip \in Identities |-> [from |-> 0, passed |-> 0]]

\* ------------------------------------------------------------- data model
ZeroStats == [ty \in EventTypes |-> 0]
NoFile == [exists |-> FALSE, weekStart |-> 0, events |-> <<>>, stats |-> ZeroStats,
           uniqueDaysActive |-> 0]

\* Date.getUTCDay of a calendar day, counted from 1970-01-01, a Thursday:
\* 0 is Sunday, 1 Monday, 6 Saturday
getUTCDay(day) == (day + 4) % 7

\* getWeekStart, lines 345-351, at the instant t: the calendar day
\* setUTCDate(getUTCDate() - getUTCDay() + 1) lands on
getWeekStart(t) == (t \div DayMs) - getUTCDay(t \div DayMs) + 1

createEmptyTelemetryData ==
    [exists |-> TRUE, weekStart |-> getWeekStart(now), events |-> <<>>,
     stats |-> ZeroStats, uniqueDaysActive |-> 0]

Today(t) == t \div DayMs

NoEvent == [eventType |-> "none", timestamp |-> 0]

\* updateAggregatedStats (the switch has one case per event type)
updateAggregatedStats(data, event, days) ==
    [data EXCEPT
        !.stats = IF event.eventType \in EventTypes
                  THEN [@ EXCEPT ![event.eventType] = @ + 1]
                  ELSE @,
        !.uniqueDaysActive = Cardinality(days)]

\* appendEventToFile, from the read's result to the data handed to writeFile:
\* a missing file is a fresh batch
AppendEvent(read, event, days) ==
    LET telemetryData == IF read.exists THEN read ELSE createEmptyTelemetryData
    IN updateAggregatedStats(
           [telemetryData EXCEPT !.events = Append(@, event)], event, days)

\* ----------------------------------------------------------------- timers
Min(S) == CHOOSE x \in S : \A y \in S : x <= y
One(x) == SetToBag({x})
Timer(kind, due, held) == [kind |-> kind, due |-> due, held |-> held]
Pending == BagToSet(timers)
HeldBy(tm, held) == {x \in BagToSet(tm) : x.held = held}

\* the handles and the pending timers, as one value the helpers below transform
TimerState == [timers |-> timers, submissionTimer |-> submissionTimer,
               retryTimer |-> retryTimer]

\* a handle is overwritten: its timer stays pending, with no handle left to it
Release(tm, held) ==
    IF HeldBy(tm, held) = {} THEN tm
    ELSE LET x == CHOOSE y \in HeldBy(tm, held) : TRUE
         IN (tm (-) One(x)) (+) One([x EXCEPT !.held = "-"])

\* clearTimeout / clearInterval of a handle (a no-op on a fired timer's handle)
Cancel(tm, held) ==
    IF HeldBy(tm, held) = {} THEN tm
    ELSE tm (-) One(CHOOSE y \in HeldBy(tm, held) : TRUE)

\* clearTimers: both handles are cancelled and set to null
clearTimers(ts) ==
    [timers |-> Cancel(Cancel(ts.timers, "s"), "r"),
     submissionTimer |-> "null", retryTimer |-> "null"]

\* this.submissionTimer = setTimeout / setInterval (lines 164, 168)
setSubmissionTimer(ts, kind, due) ==
    [ts EXCEPT !.timers = Release(@, "s") (+) One(Timer(kind, due, "s")),
               !.submissionTimer = "live"]

\* a scheduleRetry that always waits the first delay
scheduleRetry_noBackoff(ts, rc, t) ==
    IF rc >= Len(RETRY_DELAYS)
    THEN ts
    ELSE [ts EXCEPT
            !.timers = Release(@, "r") (+) One(Timer("retry", t + RETRY_DELAYS[1], "r")),
            !.retryTimer = "live"]

\* scheduleRetry: nothing once the table is exhausted, else a timer for
\* RETRY_DELAYS[retryCount] whose handle replaces this.retryTimer
scheduleRetry(ts, rc, t) ==
    IF rc >= Len(RETRY_DELAYS)
    THEN ts
    ELSE [ts EXCEPT
            !.timers = Release(@, "r") (+) One(Timer("retry", t + RETRY_DELAYS[rc + 1], "r")),
            !.retryTimer = "live"]

SetTimerState(ts) ==
    /\ timers' = ts.timers
    /\ submissionTimer' = ts.submissionTimer
    /\ retryTimer' = ts.retryTimer

\* setupSubmissionSchedule, lines 152-156: the next instant of the schedule
nextSubmissionTime_sameCycle(fa, t) ==
    LET timeSinceActivation == t - fa
        cyclesSinceActivation == timeSinceActivation \div SUBMISSION_INTERVAL
    IN fa + (cyclesSinceActivation * SUBMISSION_INTERVAL)

nextSubmissionTime(fa, t) ==
    LET timeSinceActivation == t - fa
        cyclesSinceActivation == timeSinceActivation \div SUBMISSION_INTERVAL
    IN fa + ((cyclesSinceActivation + 1) * SUBMISSION_INTERVAL)

\* ------------------------------------------------------------------ tasks
Task(kind, pc) == [kind |-> kind, pc |-> pc, event |-> NoEvent, data |-> NoFile, fa |-> 0]
Running == BagToSet(tasks)
At(pc) == {r \in Running : r.pc = pc}
Submitters == {"once", "interval", "retry", "manual"}
Spawn(r) == tasks' = tasks (+) One(r)
Done(r) == tasks' = tasks (-) One(r)
Goto(r, r2) == tasks' = (tasks (-) One(r)) (+) One(r2)

\* The record of the running submission cycle.  A cycle starts with a regular
\* attempt; it is pure when no retry timer, no submission and no schedule
\* set-up (which clears the timers) is left over from before, and stays pure
\* while every probe fails and nobody calls in.
Impure == [pure |-> FALSE, delays |-> <<>>]
RetryTimers(tm) == {x \in BagToSet(tm) : x.kind = "retry"}
NewCycle ==
    [pure |-> /\ RetryTimers(timers) = {}
              /\ {r \in Running : r.kind \in Submitters \cup {"init", "enable"}} = {},
     delays |-> <<>>]
\* the delay of the retry timer a handler armed, read off the timer itself
Armed(ts) ==
    IF cycle.pure /\ ts.timers # timers
    THEN [cycle EXCEPT !.delays =
            Append(@, (CHOOSE x \in HeldBy(ts.timers, "r") : TRUE).due - now)]
    ELSE cycle

\* ------------------------------------------------------------------- Init
\* The state after the constructor: a fresh installation with telemetry off,
\* or an installation enabled in an earlier session, whose initializeTelemetry
\* is suspended in ensureStorageDir / cleanOldData's read.
OldEvent == [eventType |-> "graph_opened", timestamp |-> StartTime - 8 * DayMs]
RecentEvent == [eventType |-> "thought_created", timestamp |-> StartTime - Hour]
BatchOf(evs) ==
    [exists |-> TRUE, weekStart |-> getWeekStart(EarlierActivation), events |-> evs,
     stats |-> [ty \in EventTypes |-> Cardinality({i \in 1..Len(evs) : evs[i].eventType = ty})],
     uniqueDaysActive |-> 1]
InitFiles == {BatchOf(<<OldEvent, RecentEvent>>)}

Init ==
    /\ now = StartTime
    /\ isEnabled \in BOOLEAN
    /\ firstActivation = (IF isEnabled THEN EarlierActivation ELSE 0)
    /\ file \in (IF isEnabled THEN InitFiles ELSE {NoFile})
    /\ activeDays = {}
    /\ retryCount = 0
    /\ submissionTimer = "null"
    /\ retryTimer = "null"
    /\ timers = EmptyBag
    /\ tasks = (IF isEnabled THEN One(Task("init", "init_read")) ELSE EmptyBag)
    /\ calls = [left |-> MaxCalls, dropped |-> 0, tracked |-> 0]
    /\ cycle = Impure
    /\ InitServer

\* ------------------------------------------------------------- trackEvent
\* trackEvent, lines 286-296: trackDailyActivity, the event, and the call of
\* appendEventToFile up to the await of the file read
trackEventAppend(eventType) ==
    /\ activeDays' = activeDays \cup {Today(now)}
    /\ Spawn([Task("track", "tr_read") EXCEPT
                 !.event = [eventType |-> eventType, timestamp |-> now]])
    /\ calls' = [calls EXCEPT !.left = @ - 1, !.tracked = @ + 1]
    /\ UNCHANGED <<now, isEnabled, firstActivation, file, retryCount,
                   submissionTimer, retryTimer, timers, cycle>>

\* trackEvent, lines 282-284: the early return
trackEventReturn ==
    /\ calls' = [calls EXCEPT !.left = @ - 1, !.dropped = @ + 1]
    /\ UNCHANGED <<now, isEnabled, firstActivation, file, activeDays, retryCount,
                   submissionTimer, retryTimer, timers, tasks, cycle>>

\* a trackEvent that lacks the check of the enabled flag
trackEvent_ungated(eventType) ==
    /\ calls.left > 0
    /\ trackEventAppend(eventType)

trackEvent(eventType) ==
    /\ calls.left > 0
    /\ IF ~isEnabled THEN trackEventReturn ELSE trackEventAppend(eventType)

\* appendEventToFile, lines 307-322: the read resolves, the event is pushed,
\* the stats are updated and the write is issued
TrackRead(r) ==
    /\ r.pc = "tr_read"
    /\ Goto(r, [r EXCEPT !.pc = "tr_write",
                         !.data = AppendEvent(file, r.event, activeDays)])
    /\ UNCHANGED <<now, isEnabled, firstActivation, file, activeDays, retryCount,
                   submissionTimer, retryTimer, timers, calls, cycle>>

\* appendEventToFile, line 322: the write lands
TrackWrite(r) ==
    /\ r.pc = "tr_write"
    /\ file' = r.data
    /\ Done(r)
    /\ UNCHANGED <<now, isEnabled, firstActivation, activeDays, retryCount,
                   submissionTimer, retryTimer, timers, calls, cycle>>

\* ------------------------------------------------- updateTelemetryStatus
\* setupSubmissionSchedule, lines 152-171, with the first activation `fa` it
\* read or set: clearTimers, then the one-shot timer for the next instant
ArmSchedule(fa) ==
    SetTimerState(
        setSubmissionTimer(clearTimers(TimerState), "once", nextSubmissionTime(fa, now)))

\* setupSubmissionSchedule followed by trackDailyActivity, as initializeTelemetry
\* (lines 92-93) and updateTelemetryStatus (lines 103-104) run them.  With no
\* first activation stored, Date.now() is stored and the task is suspended in
\* globalState.update (line 149); the store holds the new value at once.
SetupSchedule_resets(r) ==
    /\ firstActivation' = now
    /\ Goto(r, [Task(r.kind, "setup_upd") EXCEPT !.fa = now])
    /\ UNCHANGED <<timers, submissionTimer, retryTimer, activeDays>>

SetupSchedule(r) ==
    IF firstActivation = 0
    THEN /\ firstActivation' = now
         /\ Goto(r, [Task(r.kind, "setup_upd") EXCEPT !.fa = now])
         /\ UNCHANGED <<timers, submissionTimer, retryTimer, activeDays>>
    ELSE /\ ArmSchedule(firstActivation)
         /\ activeDays' = activeDays \cup {Today(now)}
         /\ Done(r)
         /\ UNCHANGED firstActivation

\* updateTelemetryStatus(true), lines 98-102: up to the await of ensureStorageDir
Enable ==
    /\ calls.left > 0
    /\ calls' = [calls EXCEPT !.left = @ - 1]
    /\ isEnabled' = TRUE
    /\ IF ~isEnabled THEN Spawn(Task("enable", "en_dir")) ELSE UNCHANGED tasks
    /\ cycle' = Impure
    /\ UNCHANGED <<now, firstActivation, file, activeDays, retryCount,
                   submissionTimer, retryTimer, timers>>

\* updateTelemetryStatus(false), lines 98-108: clearTimers, and
\* clearTelemetryData up to the await of the delete (line 452 runs before it)
Disable ==
    /\ calls.left > 0
    /\ calls' = [calls EXCEPT !.left = @ - 1]
    /\ isEnabled' = FALSE
    /\ IF isEnabled
       THEN /\ SetTimerState(clearTimers(TimerState))
            /\ activeDays' = {}
            /\ Spawn(Task("disable", "dis_del"))
       ELSE UNCHANGED <<timers, submissionTimer, retryTimer, activeDays, tasks>>
    /\ cycle' = Impure
    /\ UNCHANGED <<now, firstActivation, file, retryCount>>

\* updateTelemetryStatus(true), lines 102-104: ensureStorageDir resolved
EnableDir(r) ==
    /\ r.pc = "en_dir"
    /\ SetupSchedule(r)
    /\ UNCHANGED <<now, isEnabled, file, retryCount, calls, cycle>>

\* setupSubmissionSchedule, lines 152-171, after globalState.update resolved
SetupUpdated(r) ==
    /\ r.pc = "setup_upd"
    /\ ArmSchedule(r.fa)
    /\ activeDays' = activeDays \cup {Today(now)}
    /\ Done(r)
    /\ UNCHANGED <<now, isEnabled, firstActivation, file, retryCount, calls, cycle>>

\* clearTelemetryData, line 453, awaited by updateTelemetryStatus(false): the
\* delete lands
DisableDeleted(r) ==
    /\ r.pc = "dis_del"
    /\ file' = NoFile
    /\ Done(r)
    /\ UNCHANGED <<now, isEnabled, firstActivation, activeDays, retryCount,
                   submissionTimer, retryTimer, timers, calls, cycle>>

\* ---------------------------------------------------- initializeTelemetry
\* cleanOldData, lines 262-265
filteredEvents_inclusive(events, t) ==
    SelectSeq(events, LAMBDA event : event.timestamp >= t - MAX_DATA_AGE)
filteredEvents(events, t) ==
    SelectSeq(events, LAMBDA event : event.timestamp > t - MAX_DATA_AGE)

\* initializeTelemetry, lines 90-93: cleanOldData's read resolved.  A missing
\* file or nothing to remove goes on to setupSubmissionSchedule; otherwise the
\* filtered batch is written
InitRead(r) ==
    /\ r.pc = "init_read"
    /\ IF file.exists /\ Len(filteredEvents(file.events, now)) < Len(file.events)
       THEN /\ Goto(r, [r EXCEPT
                          !.pc = "init_write",
                          !.data = [file EXCEPT !.events = filteredEvents(file.events, now)]])
            /\ UNCHANGED <<firstActivation, timers, submissionTimer, retryTimer, activeDays>>
       ELSE SetupSchedule(r)
    /\ UNCHANGED <<now, isEnabled, file, retryCount, calls, cycle>>

\* cleanOldData, line 270: the write lands; then setupSubmissionSchedule
InitWrite(r) ==
    /\ r.pc = "init_write"
    /\ file' = r.data
    /\ SetupSchedule(r)
    /\ UNCHANGED <<now, isEnabled, retryCount, calls, cycle>>

\* ------------------------------------------------------------ submission
\* The end of a timer callback or of manualSubmit, with the timers and handles
\* `ts` as the handler left them.  The one-shot callback of
\* setupSubmissionSchedule goes on to setInterval (lines 168-170).
Finish_noInterval(r, ts) ==
    /\ Done(r)
    /\ SetTimerState(ts)

Finish(r, ts) ==
    /\ Done(r)
    /\ SetTimerState(IF r.kind = "once"
                     THEN setSubmissionTimer(ts, "interval", now + SUBMISSION_INTERVAL)
                     ELSE ts)

\* submitTelemetryData, lines 405-412: the catch block
SubmitFailed(r) ==
    Finish(r, IF retryCount < Len(RETRY_DELAYS)
              THEN scheduleRetry(TimerState, retryCount, now)
              ELSE TimerState)

\* the one-shot timer of setupSubmissionSchedule fires (line 164):
\* attemptSubmission resets retryCount and awaits the connectivity probe
FireOnce(x) ==
    /\ x.kind = "once"
    /\ x.due = now
    /\ timers' = timers (-) One(x)
    /\ submissionTimer' = IF x.held = "s" THEN "stale" ELSE submissionTimer
    /\ retryCount' = 0
    /\ Spawn(Task("once", "probe"))
    /\ cycle' = NewCycle
    /\ UNCHANGED <<now, isEnabled, firstActivation, file, activeDays, retryTimer, calls>>

\* the recurring timer fires (line 168) and stays armed for the next period
FireInterval(x) ==
    /\ x.kind = "interval"
    /\ x.due = now
    /\ timers' = (timers (-) One(x)) (+) One([x EXCEPT !.due = now + SUBMISSION_INTERVAL])
    /\ retryCount' = 0
    /\ Spawn(Task("interval", "probe"))
    /\ cycle' = NewCycle
    /\ UNCHANGED <<now, isEnabled, firstActivation, file, activeDays,
                   submissionTimer, retryTimer, calls>>

\* a retry timer fires (lines 222-225): retryCount++, then the probe
FireRetry(x) ==
    /\ x.kind = "retry"
    /\ x.due = now
    /\ timers' = timers (-) One(x)
    /\ retryTimer' = IF x.held = "r" THEN "stale" ELSE retryTimer
    /\ retryCount' = retryCount + 1
    /\ Spawn(Task("retry", "probe"))
    /\ UNCHANGED <<now, isEnabled, firstActivation, file, activeDays,
                   submissionTimer, calls, cycle>>

\* checkConnectivity resolved false (lines 180-183, 225-228): scheduleRetry
ProbeFailed(r) ==
    /\ r.pc = "probe"
    /\ Finish(r, scheduleRetry(TimerState, retryCount, now))
    /\ cycle' = Armed(scheduleRetry(TimerState, retryCount, now))
    /\ UNCHANGED <<now, isEnabled, firstActivation, file, activeDays, retryCount, calls>>

\* checkConnectivity resolved true: submitTelemetryData, lines 376-381, up to
\* the await of the file read
ProbeOk(r) ==
    /\ r.pc = "probe"
    /\ IF ~isEnabled
       THEN Finish(r, TimerState)
       ELSE /\ Goto(r, [r EXCEPT !.pc = "sub_read"])
            /\ UNCHANGED <<timers, submissionTimer, retryTimer>>
    /\ cycle' = Impure
    /\ UNCHANGED <<now, isEnabled, firstActivation, file, activeDays, retryCount, calls>>

\* manualSubmit, lines 465-470
manualSubmit ==
    /\ calls.left > 0
    /\ calls' = [calls EXCEPT !.left = @ - 1]
    /\ IF ~isEnabled THEN UNCHANGED tasks ELSE Spawn(Task("manual", "sub_read"))
    /\ cycle' = Impure
    /\ UNCHANGED <<now, isEnabled, firstActivation, file, activeDays, retryCount,
                   submissionTimer, retryTimer, timers>>

\* sendToBackend, lines 420-424: the serialized size, by the number of events.
\* An event without metadata of the shortest type serializes to EventChars
\* characters (braces, the three fields "eventType":"graph_opened",
\* "timestamp":"<24 characters>", "anonymousId":"<36 characters>" and the comma
\* after the event); the rest of the batch to about BatchChars
EventChars == 1 + 27 + 39 + 52 + 1 + 1
BatchChars == 3 * 100
payloadSize(data) == BatchChars + Len(data.events) * EventChars
Slice(events, n) ==
    IF Len(events) <= n THEN events ELSE SubSeq(events, Len(events) - n + 1, Len(events))
\* a truncation that keeps the first 500 events
Payload_firstEvents(data) ==
    IF payloadSize(data) > 900000
    THEN [data EXCEPT !.events = SubSeq(@, 1, 500)]
    ELSE data

Payload(data) ==
    IF payloadSize(data) > 900000
    THEN [data EXCEPT !.events = Slice(@, 500)]
    ELSE data

\* submitTelemetryData, lines 381-390: the read resolved.  A missing file
\* throws into the catch block; no events returns; otherwise sendToBackend
\* issues the request
SubmitRead(r) ==
    /\ r.pc = "sub_read"
    /\ IF ~file.exists
       THEN SubmitFailed(r)
       ELSE IF Len(file.events) = 0
       THEN Finish(r, TimerState)
       ELSE /\ Goto(r, [r EXCEPT !.pc = "send", !.data = Payload(file)])
            /\ UNCHANGED <<timers, submissionTimer, retryTimer>>
    /\ UNCHANGED <<now, isEnabled, firstActivation, file, activeDays, retryCount, calls, cycle>>

\* a check that takes every answer of the server for a success
ok_anyAnswer(status) == status >= 200

\* response.ok
ok(status) == status >= 200 /\ status <= 299

\* sendToBackend, lines 435-446, and submitTelemetryData, lines 393 and
\* 405-412: the request ended.  A 2xx answer goes on to clearTelemetryData
\* (line 452 runs before the delete is awaited); anything else is thrown into
\* the catch block
SendDone(r, status) ==
    /\ r.pc = "send"
    /\ IF ok(status)
       THEN /\ activeDays' = {}
            /\ Goto(r, [r EXCEPT !.pc = "clear"])
            /\ UNCHANGED <<timers, submissionTimer, retryTimer>>
       ELSE /\ SubmitFailed(r)
            /\ UNCHANGED activeDays
    /\ UNCHANGED <<now, isEnabled, firstActivation, file, retryCount, calls, cycle>>

\* submitTelemetryData, lines 393-404: the delete landed; retryCount is reset
\* and the retry timer behind this.retryTimer cancelled
SubmitCleared(r) ==
    /\ r.pc = "clear"
    /\ file' = NoFile
    /\ retryCount' = 0
    /\ Finish(r, [TimerState EXCEPT !.timers = Cancel(@, "r"), !.retryTimer = "null"])
    /\ UNCHANGED <<now, isEnabled, firstActivation, activeDays, calls, cycle>>

\* ------------------------------------------------------------------ clock
Due == {x.due : x \in Pending}

\* an awaited operation takes Latency
Tick ==
    /\ calls.left > 0
    /\ tasks # EmptyBag
    /\ \A d \in Due : d >= now + Latency
    /\ now' = now + Latency
    /\ calls' = [calls EXCEPT !.left = @ - 1]
    /\ UNCHANGED <<isEnabled, firstActivation, file, activeDays, retryCount,
                   submissionTimer, retryTimer, timers, tasks, cycle>>

\* nothing happens until the next timer is due
Wait ==
    /\ Due # {}
    /\ Min(Due) > now
    /\ Min(Due) <= Horizon
    /\ now' = Min(Due)
    /\ UNCHANGED <<isEnabled, firstActivation, file, activeDays, retryCount,
                   submissionTimer, retryTimer, timers, tasks, calls, cycle>>

\* ------------------------------------------------------------------- Next
Next ==
    \/ \E eventType \in TrackTypes : trackEvent(eventType) /\ UNCHANGED serverVars
    \/ \E r \in Running : TrackRead(r) /\ UNCHANGED serverVars
    \/ \E r \in Running : TrackWrite(r) /\ UNCHANGED serverVars
    \/ Enable /\ UNCHANGED serverVars
    \/ Disable /\ UNCHANGED serverVars
    \/ \E r \in Running : EnableDir(r) /\ UNCHANGED serverVars
    \/ \E r \in Running : SetupUpdated(r) /\ UNCHANGED serverVars
    \/ \E r \in Running : DisableDeleted(r) /\ UNCHANGED serverVars
    \/ \E r \in Running : InitRead(r) /\ UNCHANGED serverVars
    \/ \E r \in Running : InitWrite(r) /\ UNCHANGED serverVars
    \/ \E x \in Pending : FireOnce(x) /\ UNCHANGED serverVars
    \/ \E x \in Pending : FireInterval(x) /\ UNCHANGED serverVars
    \/ \E x \in Pending : FireRetry(x) /\ UNCHANGED serverVars
    \/ \E r \in Running : ProbeFailed(r) /\ UNCHANGED serverVars
    \/ \E r \in Running : ProbeOk(r) /\ UNCHANGED serverVars
    \/ manualSubmit /\ UNCHANGED serverVars
    \/ \E r \in Running : SubmitRead(r) /\ UNCHANGED serverVars
    \/ \E r \in Running, status \in Statuses : SendDone(r, status) /\ UNCHANGED serverVars
    \/ \E r \in Running : SubmitCleared(r) /\ UNCHANGED serverVars
    \/ Tick /\ UNCHANGED serverVars
    \/ Wait /\ UNCHANGED serverVars

Spec == Init /\ [][Next]_vars

\* ----------------------------------------------------- the store alone
\* Two calls of trackEvent on a manager whose initialization has finished:
\* the state Init reaches once cleanOldData has removed the old event and the
\* schedule is armed, with room for one call more.
StoreFile == [BatchOf(<<OldEvent, RecentEvent>>) EXCEPT !.events = <<RecentEvent>>]
Initialized ==
    /\ now = StartTime
    /\ isEnabled = TRUE
    /\ firstActivation = EarlierActivation
    /\ file = StoreFile
    /\ activeDays = {Today(StartTime)}
    /\ retryCount = 0
    /\ submissionTimer = "live"
    /\ retryTimer = "null"
    /\ timers = One(Timer("once", nextSubmissionTime(EarlierActivation, StartTime), "s"))
    /\ tasks = EmptyBag
    /\ cycle = Impure
    /\ InitServer

InitStore ==
    /\ Initialized
    /\ calls = [left |-> MaxCalls + 2, dropped |-> 0, tracked |-> 0]

NextStore ==
    \/ \E eventType \in TrackTypes : trackEvent(eventType) /\ UNCHANGED serverVars
    \/ \E r \in Running : TrackRead(r) /\ UNCHANGED serverVars
    \/ \E r \in Running : TrackWrite(r) /\ UNCHANGED serverVars
    \/ Tick /\ UNCHANGED serverVars

SpecStore == InitStore /\ [][NextStore]_vars

\* ------------------------------------------------------ the events' age
\* A restart of an installation that was enabled in an earlier session, with
\* telemetry left on: the batch file holds events of every age, some to be
\* removed by cleanOldData and one that passes the retention window while
\* the process runs; or holds nothing to remove; or does not exist.
AgingEvent == [eventType |-> "graph_opened", timestamp |-> StartTime - MAX_DATA_AGE + 10 * Hour]
BoundaryEvent == [eventType |-> "thought_created", timestamp |-> StartTime - MAX_DATA_AGE]
RetentionFiles ==
    {BatchOf(<<AgingEvent, OldEvent, RecentEvent, BoundaryEvent>>),
     BatchOf(<<AgingEvent, RecentEvent>>),
     NoFile}

InitRetention ==
    /\ now = StartTime
    /\ isEnabled = TRUE
    /\ firstActivation = EarlierActivation
    /\ file \in RetentionFiles
    /\ activeDays = {}
    /\ retryCount = 0
    /\ submissionTimer = "null"
    /\ retryTimer = "null"
    /\ timers = EmptyBag
    /\ tasks = One(Task("init", "init_read"))
    /\ calls = [left |-> MaxCalls, dropped |-> 0, tracked |-> 0]
    /\ cycle = Impure
    /\ InitServer

NextRetention ==
    \/ \E eventType \in TrackTypes : trackEvent(eventType) /\ UNCHANGED serverVars
    \/ \E r \in Running : TrackRead(r) /\ UNCHANGED serverVars
    \/ \E r \in Running : TrackWrite(r) /\ UNCHANGED serverVars
    \/ \E r \in Running : InitRead(r) /\ UNCHANGED serverVars
    \/ \E r \in Running : InitWrite(r) /\ UNCHANGED serverVars
    \/ \E x \in Pending : FireOnce(x) /\ UNCHANGED serverVars
    \/ \E x \in Pending : FireInterval(x) /\ UNCHANGED serverVars
    \/ \E x \in Pending : FireRetry(x) /\ UNCHANGED serverVars
    \/ \E r \in Running : ProbeFailed(r) /\ UNCHANGED serverVars
    \/ \E r \in Running : ProbeOk(r) /\ UNCHANGED serverVars
    \/ \E r \in Running : SubmitRead(r) /\ UNCHANGED serverVars
    \/ \E r \in Running, status \in Statuses : SendDone(r, status) /\ UNCHANGED serverVars
    \/ \E r \in Running : SubmitCleared(r) /\ UNCHANGED serverVars
    \/ Tick /\ UNCHANGED serverVars
    \/ Wait /\ UNCHANGED serverVars

SpecRetention == InitRetention /\ [][NextRetention]_vars

\* ------------------------------------------------- enabling and disabling
\* A run in which the user switches telemetry on and off several times, from
\* a fresh installation or from a restart with telemetry left on, while the
\* schedule runs; no events are tracked.
InitSwitching ==
    /\ now = StartTime
    /\ isEnabled \in BOOLEAN
    /\ firstActivation = (IF isEnabled THEN EarlierActivation ELSE 0)
    /\ file \in (IF isEnabled THEN InitFiles ELSE {NoFile})
    /\ activeDays = {}
    /\ retryCount = 0
    /\ submissionTimer = "null"
    /\ retryTimer = "null"
    /\ timers = EmptyBag
    /\ tasks = (IF isEnabled THEN One(Task("init", "init_read")) ELSE EmptyBag)
    /\ calls = [left |-> MaxCalls + 2, dropped |-> 0, tracked |-> 0]
    /\ cycle = Impure
    /\ InitServer

NextSwitching ==
    \/ Enable /\ UNCHANGED serverVars
    \/ Disable /\ UNCHANGED serverVars
    \/ \E r \in Running : EnableDir(r) /\ UNCHANGED serverVars
    \/ \E r \in Running : SetupUpdated(r) /\ UNCHANGED serverVars
    \/ \E r \in Running : DisableDeleted(r) /\ UNCHANGED serverVars
    \/ \E r \in Running : InitRead(r) /\ UNCHANGED serverVars
    \/ \E r \in Running : InitWrite(r) /\ UNCHANGED serverVars
    \/ \E x \in Pending : FireOnce(x) /\ UNCHANGED serverVars
    \/ \E x \in Pending : FireInterval(x) /\ UNCHANGED serverVars
    \/ \E x \in Pending : FireRetry(x) /\ UNCHANGED serverVars
    \/ \E r \in Running : ProbeFailed(r) /\ UNCHANGED serverVars
    \/ \E r \in Running : ProbeOk(r) /\ UNCHANGED serverVars
    \/ \E r \in Running : SubmitRead(r) /\ UNCHANGED serverVars
    \/ \E r \in Running, status \in Statuses : SendDone(r, status) /\ UNCHANGED serverVars
    \/ \E r \in Running : SubmitCleared(r) /\ UNCHANGED serverVars
    \/ Wait /\ UNCHANGED serverVars

SpecSwitching == InitSwitching /\ [][NextSwitching]_vars

\* ------------------------------------------------------------ the retries
\* An initialized manager some time before a regular instant of its schedule:
\* the user calls manualSubmit, attempts fail and are retried, and the
\* regular timer fires among the retries.  The batch file holds an event,
\* holds none, or does not exist.
NextRegular == nextSubmissionTime(EarlierActivation, StartTime)
RetryStarts == {StartTime, NextRegular - RETRY_DELAYS[1]}
RetryFiles == {StoreFile, createEmptyTelemetryData, NoFile}
InitRetries ==
    /\ now \in RetryStarts
    /\ isEnabled = TRUE
    /\ firstActivation = EarlierActivation
    /\ file \in RetryFiles
    /\ activeDays = {Today(StartTime)}
    /\ retryCount = 0
    /\ submissionTimer = "live"
    /\ retryTimer = "null"
    /\ timers = One(Timer("once", NextRegular, "s"))
    /\ tasks = EmptyBag
    /\ calls = [left |-> MaxCalls, dropped |-> 0, tracked |-> 0]
    /\ cycle = Impure
    /\ InitServer

NextRetries ==
    \/ manualSubmit /\ UNCHANGED serverVars
    \/ \E x \in Pending : FireOnce(x) /\ UNCHANGED serverVars
    \/ \E x \in Pending : FireInterval(x) /\ UNCHANGED serverVars
    \/ \E x \in Pending : FireRetry(x) /\ UNCHANGED serverVars
    \/ \E r \in Running : ProbeFailed(r) /\ UNCHANGED serverVars
    \/ \E r \in Running : ProbeOk(r) /\ UNCHANGED serverVars
    \/ \E r \in Running : SubmitRead(r) /\ UNCHANGED serverVars
    \/ \E r \in Running, status \in Statuses : SendDone(r, status) /\ UNCHANGED serverVars
    \/ \E r \in Running : SubmitCleared(r) /\ UNCHANGED serverVars
    \/ Wait /\ UNCHANGED serverVars

SpecRetries == InitRetries /\ [][NextRetries]_vars

\* --------------------------------------------------------- after an outage
\* An initialized manager with a non-empty batch that stays enabled: until
\* OutageEnd connectivity probes and requests may fail, from then on every
\* probe succeeds and the server answers 200.  Handlers run to their end
\* before the next timer is due; every timer that is due fires, and every
\* awaited probe, read, request and delete resolves.
OutageEnd == NextRegular + SUBMISSION_INTERVAL
InitOutage ==
    /\ Initialized
    /\ calls = [left |-> MaxCalls, dropped |-> 0, tracked |-> 0]

Resolve(r) ==
    \/ now < OutageEnd /\ ProbeFailed(r)
    \/ ProbeOk(r)
    \/ SubmitRead(r)
    \/ \E status \in Statuses : (now < OutageEnd \/ status = 200) /\ SendDone(r, status)
    \/ SubmitCleared(r)
Fire(x) == FireOnce(x) \/ FireInterval(x) \/ FireRetry(x)
Idle == tasks = EmptyBag /\ Wait

NextOutage ==
    \/ manualSubmit /\ UNCHANGED serverVars
    \/ \E x \in Pending : FireOnce(x) /\ UNCHANGED serverVars
    \/ \E x \in Pending : FireInterval(x) /\ UNCHANGED serverVars
    \/ \E x \in Pending : FireRetry(x) /\ UNCHANGED serverVars
    \/ \E r \in Running : now < OutageEnd /\ ProbeFailed(r) /\ UNCHANGED serverVars
    \/ \E r \in Running : ProbeOk(r) /\ UNCHANGED serverVars
    \/ \E r \in Running : SubmitRead(r) /\ UNCHANGED serverVars
    \/ \E r \in Running, status \in Statuses :
          (now < OutageEnd \/ status = 200) /\ SendDone(r, status) /\ UNCHANGED serverVars
    \/ \E r \in Running : SubmitCleared(r) /\ UNCHANGED serverVars
    \/ Idle /\ UNCHANGED serverVars

SpecOutage ==
    /\ InitOutage
    /\ [][NextOutage]_vars
    /\ WF_vars(\E x \in Pending : Fire(x) /\ UNCHANGED serverVars)
    /\ WF_vars(\E r \in Running : Resolve(r) /\ UNCHANGED serverVars)
    /\ WF_vars(Idle /\ UNCHANGED serverVars)

\* ---------------------------------------------------------- days of use
\* The extension host is restarted: the handlers in flight and the timers of
\* the old process are gone, the constructor (lines 77-84) runs on fresh
\* fields; the setting, the stored first activation and the batch file stay.
Restart ==
    /\ calls.left > 0
    /\ calls' = [calls EXCEPT !.left = @ - 1]
    /\ activeDays' = {}
    /\ retryCount' = 0
    /\ submissionTimer' = "null"
    /\ retryTimer' = "null"
    /\ timers' = EmptyBag
    /\ tasks' = (IF isEnabled THEN One(Task("init", "init_read")) ELSE EmptyBag)
    /\ cycle' = Impure
    /\ UNCHANGED <<now, isEnabled, firstActivation, file>>

\* Use over several days and sessions: trackEvent calls, restarts, and the
\* clock passing midnight on its way to the next regular instant.
InitDays ==
    /\ now = StartTime
    /\ isEnabled = TRUE
    /\ firstActivation = EarlierActivation
    /\ file \in InitFiles \cup {NoFile}
    /\ activeDays = {}
    /\ retryCount = 0
    /\ submissionTimer = "null"
    /\ retryTimer = "null"
    /\ timers = EmptyBag
    /\ tasks = One(Task("init", "init_read"))
    /\ calls = [left |-> MaxCalls + 3, dropped |-> 0, tracked |-> 0]
    /\ cycle = Impure
    /\ InitServer

NextDays ==
    \/ \E eventType \in TrackTypes : trackEvent(eventType) /\ UNCHANGED serverVars
    \/ \E r \in Running : TrackRead(r) /\ UNCHANGED serverVars
    \/ \E r \in Running : TrackWrite(r) /\ UNCHANGED serverVars
    \/ \E r \in Running : InitRead(r) /\ UNCHANGED serverVars
    \/ \E r \in Running : InitWrite(r) /\ UNCHANGED serverVars
    \/ Restart /\ UNCHANGED serverVars
    \/ Wait /\ UNCHANGED serverVars

SpecDays == InitDays /\ [][NextDays]_vars

\* ------------------------------------------------------- the batch's week
\* An initialized manager without a batch file, on each day of a week:
\* trackEvent creates the batch.
CreationDays == {StartTime + k * DayMs : k \in 0..6}
InitWeek ==
    /\ now \in CreationDays
    /\ isEnabled = TRUE
    /\ firstActivation = EarlierActivation
    /\ file = NoFile
    /\ activeDays = {Today(now)}
    /\ retryCount = 0
    /\ submissionTimer = "live"
    /\ retryTimer = "null"
    /\ timers = One(Timer("once", nextSubmissionTime(EarlierActivation, now), "s"))
    /\ tasks = EmptyBag
    /\ calls = [left |-> MaxCalls + 1, dropped |-> 0, tracked |-> 0]
    /\ cycle = Impure
    /\ InitServer

NextWeek ==
    \/ \E eventType \in TrackTypes : trackEvent(eventType) /\ UNCHANGED serverVars
    \/ \E r \in Running : TrackRead(r) /\ UNCHANGED serverVars
    \/ \E r \in Running : TrackWrite(r) /\ UNCHANGED serverVars

SpecWeek == InitWeek /\ [][NextWeek]_vars

\* ----------------------------------------------- the batches transmitted
\* validateTelemetryData of the server, lines 90-93 and 108-110: the ceilings
\* on the serialized size and on the number of events
payloadTooLarge(size) == size > 500000
tooManyEvents(n) == n > 1000

\* An initialized manager whose batch has grown to just below a ceiling of the
\* server or the truncation threshold of the client; trackEvent adds to it and
\* manualSubmit transmits it.
ManyEvents(n) == [i \in 1..n |-> [eventType |-> "graph_opened", timestamp |-> StartTime - Hour]]
PayloadCounts ==
    {1000 - 1,
     (500000 - BatchChars) \div EventChars - 1,
     (900000 - BatchChars) \div EventChars - 1}
InitPayload ==
    /\ now = StartTime
    /\ isEnabled = TRUE
    /\ firstActivation = EarlierActivation
    /\ file \in {BatchOf(ManyEvents(n)) : n \in PayloadCounts}
    /\ activeDays = {Today(StartTime)}
    /\ retryCount = 0
    /\ submissionTimer = "live"
    /\ retryTimer = "null"
    /\ timers = One(Timer("once", nextSubmissionTime(EarlierActivation, StartTime), "s"))
    /\ tasks = EmptyBag
    /\ cycle = Impure
    /\ calls = [left |-> MaxCalls + 2, dropped |-> 0, tracked |-> 0]
    /\ InitServer

NextPayload ==
    \/ \E eventType \in TrackTypes : trackEvent(eventType) /\ UNCHANGED serverVars
    \/ \E r \in Running : TrackRead(r) /\ UNCHANGED serverVars
    \/ \E r \in Running : TrackWrite(r) /\ UNCHANGED serverVars
    \/ manualSubmit /\ UNCHANGED serverVars
    \/ \E r \in Running : SubmitRead(r) /\ UNCHANGED serverVars
    \/ \E r \in Running, status \in Statuses : SendDone(r, status) /\ UNCHANGED serverVars
    \/ \E r \in Running : SubmitCleared(r) /\ UNCHANGED serverVars

SpecPayload == InitPayload /\ [][NextPayload]_vars

\* ------------------------------------------------- the server: rate limiter
RATE_LIMIT == 100
RATE_WINDOW == 60 * 60 * 1000

\* The instants at which requests arrive: a start, the last instant at which
\* a window opened at the start has not expired, and the first at which it has.
Instants == {0, RATE_WINDOW, RATE_WINDOW + 1}

\* map.set(key, value), also the creation or replacement of a file
Put(map, key, value) ==
    [k \in DOMAIN map \cup {key} |-> IF k = key THEN value ELSE map[k]]

rateLimit_limitFirst(clientIP) ==
    IF clientIP \notin DOMAIN requestCounts
    THEN [counts |-> Put(requestCounts, clientIP, [count |-> 1, windowStart |-> clock]),
          next |-> TRUE]
    ELSE LET clientData == requestCounts[clientIP] IN
         IF clientData.count >= RATE_LIMIT
         THEN [counts |-> requestCounts, next |-> FALSE]
         ELSE IF clock - clientData.windowStart > RATE_WINDOW
         THEN [counts |-> [requestCounts EXCEPT
                              ![clientIP] = [count |-> 1, windowStart |-> clock]],
               next |-> TRUE]
         ELSE [counts |-> [requestCounts EXCEPT ![clientIP].count = @ + 1],
               next |-> TRUE]

rateLimit_offByOne(clientIP) ==
    IF clientIP \notin DOMAIN requestCounts
    THEN [counts |-> Put(requestCounts, clientIP, [count |-> 1, windowStart |-> clock]),
          next |-> TRUE]
    ELSE LET clientData == requestCounts[clientIP] IN
         IF clock - clientData.windowStart > RATE_WINDOW
         THEN [counts |-> [requestCounts EXCEPT
                              ![clientIP] = [count |-> 1, windowStart |-> clock]],
               next |-> TRUE]
         ELSE IF clientData.count > RATE_LIMIT
         THEN [counts |-> requestCounts, next |-> FALSE]
         ELSE [counts |-> [requestCounts EXCEPT ![clientIP].count = @ + 1],
               next |-> TRUE]

\* rateLimit(req, res, next): the Map after the call, and whether next() was
\* called (otherwise the 429 answer was sent).
rateLimit(clientIP) ==
    IF clientIP \notin DOMAIN requestCounts
    THEN [counts |-> Put(requestCounts, clientIP, [count |-> 1, windowStart |-> clock]),
          next |-> TRUE]
    ELSE LET clientData == requestCounts[clientIP] IN
         IF clock - clientData.windowStart > RATE_WINDOW
         THEN [counts |-> [requestCounts EXCEPT
                              ![clientIP] = [count |-> 1, windowStart |-> clock]],
               next |-> TRUE]
         ELSE IF clientData.count >= RATE_LIMIT
         THEN [counts |-> requestCounts, next |-> FALSE]
         ELSE [counts |-> [requestCounts EXCEPT ![clientIP].count = @ + 1],
               next |-> TRUE]

\* The windows of an identity as the quota is stated: a window is opened by
\* the identity's first request and by its first request arriving more than
\* RATE_WINDOW after the current window was opened.
Arrived(q, passed) ==
    IF ~q.open \/ clock - q.opened > RATE_WINDOW
    THEN [open |-> TRUE, opened |-> clock, passed |-> IF passed THEN 1 ELSE 0,
          rejected |-> ~passed, after |-> q.rejected]
    ELSE [q EXCEPT !.passed = @ + (IF passed THEN 1 ELSE 0),
                   !.rejected = @ \/ ~passed]

\* Time passes on the server.  The interval measured by burst is restarted
\* when it would reach the length of RATE_WINDOW, and may be restarted at any
\* instant.
Advance ==
    /\ \E t \in Instants, restart \in BOOLEAN :
         /\ t > clock
         /\ clock' = t
         /\ burst' = [ip \in Identities |->
                         IF restart \/ t - burst[ip].from >= RATE_WINDOW
                         THEN [from |-> t, passed |-> 0]
                         ELSE burst[ip]]
    /\ UNCHANGED <<requestCounts, files, handled, quota>>
    /\ UNCHANGED clientVars

\* ------------------------------------------- the server: request bodies
\* A parsed JSON value carries its type.  A string is the sequence of its
\* pieces, where each of the characters < > " ' & is a piece of its own and
\* the characters between two of them are one piece, followed by `pad` further
\* ordinary characters.  An object is a record of its own properties.
Null == [t |-> "null"]
Undefined == [t |-> "undefined"]
Num(n) == [t |-> "num", v |-> n]
Bool(b) == [t |-> "bool", v |-> b]
Text(pieces, n) == [t |-> "str", v |-> pieces, pad |-> n]
Str(s) == Text(IF s = "" THEN <<>> ELSE <<s>>, 0)
Arr(items) == [t |-> "arr", v |-> items]
Obj(properties) == [t |-> "obj", v |-> properties]

Unsafe == {"<", ">", "\"", "'", "&"}

\* value[key]: undefined for a property the value does not have, a TypeError
\* for null (callers test for Null first).
Get(value, key) ==
    IF value.t = "obj" /\ key \in DOMAIN value.v THEN value.v[key] ELSE Undefined

\* `key in value`, for an object or an array.
Has(value, key) == value.t = "obj" /\ key \in DOMAIN value.v

\* !!value
Truthy(value) ==
    CASE value.t \in {"null", "undefined"} -> FALSE
      [] value.t = "num" -> value.v # 0
      [] value.t = "bool" -> value.v
      [] value.t = "str" -> value.v # <<>> \/ value.pad > 0
      [] OTHER -> TRUE

RECURSIVE PiecesLen(_)
PiecesLen(pieces) ==
    IF pieces = <<>> THEN 0 ELSE Len(Head(pieces)) + PiecesLen(Tail(pieces))

\* string.length
Length(string) == PiecesLen(string.v) + string.pad

RECURSIVE Joined(_)
Joined(pieces) ==
    IF pieces = <<>> THEN "" ELSE Head(pieces) \o Joined(Tail(pieces))

\* JSON.stringify(value).length: a quote inside a string is written \", an
\* undefined property is left out.
RECURSIVE Stringified(_), StringifiedItems(_, _, _), StringifiedProperties(_, _)
StringifiedItems(items, first, last) ==
    IF first > last THEN 0
    ELSE IF first = last THEN Stringified(items[first])
    ELSE LET middle == (first + last) \div 2 IN
         StringifiedItems(items, first, middle) + 1
         + StringifiedItems(items, middle + 1, last)
StringifiedProperties(properties, keys) ==
    IF keys = {} THEN 0
    ELSE LET key == CHOOSE k \in keys : TRUE IN
         Len(key) + 3 + Stringified(properties[key])
         + (IF keys # {key} THEN 1 ELSE 0)
         + StringifiedProperties(properties, keys \ {key})
Stringified(value) ==
    CASE value.t = "null" -> 4
      [] value.t = "num" -> Len(ToString(value.v))
      [] value.t = "bool" -> IF value.v THEN 4 ELSE 5
      [] value.t = "str" ->
           2 + Length(value) + Cardinality({i \in DOMAIN value.v : value.v[i] = "\""})
      [] value.t = "arr" -> 2 + StringifiedItems(value.v, 1, Len(value.v))
      [] value.t = "obj" ->
           2 + StringifiedProperties(value.v,
                    {k \in DOMAIN value.v : value.v[k] # Undefined})

\* sanitizeInput(input)
sanitizeInput(input) ==
    IF input.t = "str"
    THEN LET kept == Joined(SelectSeq(input.v, LAMBDA piece : piece \notin Unsafe))
             room == 1000 - Len(kept)
         IN  Text(IF kept = "" THEN <<>> ELSE <<kept>>,
                  IF input.pad < room THEN input.pad ELSE room)
    ELSE input

\* ------------------------------------------------ the server: validation
RequiredFields == {"sessionId", "extensionVersion", "vscodeVersion", "platform",
                   "weekStart", "events", "aggregatedStats"}
validEventTypes == {Str("thought_created"), Str("graph_opened"),
                    Str("suggest_related_used"), Str("semantic_search_used"),
                    Str("semantic_ai_graph_used")}

\* One pass of the loop over data.events, from the first event on: the
\* outcome ("valid", "invalid", or "throws" for the TypeError of reading a
\* property of null), and the events as the loop leaves them, eventType and
\* anonymousId overwritten by their sanitized values.
RECURSIVE validateEvents(_)
validateEvents(events) ==
    IF events = <<>> THEN [outcome |-> "valid", events |-> <<>>]
    ELSE LET event == Head(events) IN
         IF event = Null THEN [outcome |-> "throws", events |-> events]
         ELSE IF \/ ~Truthy(Get(event, "eventType"))
                 \/ ~Truthy(Get(event, "timestamp"))
                 \/ ~Truthy(Get(event, "anonymousId"))
         THEN [outcome |-> "invalid", events |-> events]
         ELSE LET cleaned ==
                      Obj([event.v EXCEPT
                              !["eventType"] = sanitizeInput(@),
                              !["anonymousId"] = sanitizeInput(@)])
              IN  IF cleaned.v["eventType"] \notin validEventTypes
                  THEN [outcome |-> "invalid", events |-> <<cleaned>> \o Tail(events)]
                  ELSE LET rest == validateEvents(Tail(events)) IN
                       [outcome |-> rest.outcome, events |-> <<cleaned>> \o rest.events]

\* validateTelemetryData(data): its outcome, and data as the call leaves it.
validateTelemetryData(data) ==
    IF payloadTooLarge(Stringified(data))
    THEN [outcome |-> "invalid", data |-> data]
    ELSE IF \E field \in RequiredFields : ~Has(data, field)
    THEN [outcome |-> "invalid", data |-> data]
    ELSE IF data.v["events"].t # "arr"
    THEN [outcome |-> "invalid", data |-> data]
    ELSE IF tooManyEvents(Len(data.v["events"].v))
    THEN [outcome |-> "invalid", data |-> data]
    ELSE LET loop == validateEvents(data.v["events"].v) IN
         [outcome |-> loop.outcome,
          data |-> Obj([data.v EXCEPT !["events"] = Arr(loop.events)])]

\* ----------------------------------------------- the server: sanitization
\* SHA-256 is taken as it is meant: a function of its input whose value is
\* no JSON value a caller submits; update() throws for anything but a string.
Hashable(value) == value.t = "str"
hashAnonymousId_unhashed(anonymousId) == anonymousId
hashAnonymousId(anonymousId) == [t |-> "hash", of |-> anonymousId]

safeFields == {"thoughtType", "hasCodeSnippet", "searchTermLength", "resultCount"}

\* `field in metadata` throws for a metadata that is no object or array.
Inspectable(metadata) == metadata.t \in {"obj", "arr"}
sanitizeMetadata_keepsAll(metadata) == metadata
sanitizeMetadata(metadata) ==
    Obj([field \in {f \in safeFields : Has(metadata, f)} |-> metadata.v[field]])

\* The object built for one event; JSON.stringify leaves an undefined
\* metadata out of the record.
sanitizeEvent(event) ==
    LET kept == [eventType |-> Get(event, "eventType"),
                 timestamp |-> Get(event, "timestamp"),
                 anonymousId |-> hashAnonymousId(Get(event, "anonymousId"))]
    IN  Obj(IF Truthy(Get(event, "metadata"))
            THEN kept @@ ("metadata" :> sanitizeMetadata(Get(event, "metadata")))
            ELSE kept)

\* Whether sanitizeTelemetryData(data) throws.
sanitizeThrows(data) ==
    \E i \in DOMAIN data.v["events"].v :
        LET event == data.v["events"].v[i] IN
        \/ ~Hashable(Get(event, "anonymousId"))
        \/ Truthy(Get(event, "metadata")) /\ ~Inspectable(Get(event, "metadata"))

\* sanitizeTelemetryData(data)
sanitizeTelemetryData(data) ==
    Obj([key \in DOMAIN data.v \ {"sessionId"} |->
            IF key = "events"
            THEN Arr([i \in DOMAIN data.v["events"].v |->
                         sanitizeEvent(data.v["events"].v[i])])
            ELSE data.v[key]])

\* -------------------------------------------- the server: POST /api/telemetry
\* generateFilename(): the date of the server's clock and four random bytes.
generateFilename(random) == <<clock \div DayMs, random>>

\* The record written for an accepted body: the sanitized data under the
\* server's own receivedAt, serverVersion and ipHash.
processedData(clientIP, data) ==
    Obj([receivedAt |-> [t |-> "date", v |-> clock],
         serverVersion |-> Str("1.0.0"),
         ipHash |-> hashAnonymousId(Str(clientIP))]
        @@ sanitizeTelemetryData(data).v)

Answer(clientIP, req, status, error, reached) ==
    [NoAnswer EXCEPT !.ip = clientIP, !.req = req, !.status = status, !.error = error,
                     !.reached = reached]

\* The handler of POST /api/telemetry, lines 189-246: its answer and the files
\* after it.  `random` is the outcome of randomBytes, diskOk whether
\* fs.writeFile succeeds.
postTelemetry(clientIP, req, random, diskOk) ==
    LET validation == validateTelemetryData(req.body)
        filename == generateFilename(random)
    IN  IF ~req.json
        THEN [answer |-> Answer(clientIP, req, 400,
                                "Content-Type must be application/json", "handler"),
              files |-> files]
        ELSE IF validation.outcome = "throws"
        THEN [answer |-> Answer(clientIP, req, 500, "Internal server error", "validation"),
              files |-> files]
        ELSE IF validation.outcome = "invalid"
        THEN [answer |-> Answer(clientIP, req, 400, "Invalid data format", "validation"),
              files |-> files]
        ELSE IF sanitizeThrows(validation.data)
        THEN [answer |-> Answer(clientIP, req, 500, "Internal server error", "sanitization"),
              files |-> files]
        ELSE IF ~diskOk
        THEN [answer |-> Answer(clientIP, req, 500, "Internal server error", "write"),
              files |-> files]
        ELSE [answer |-> [Answer(clientIP, req, 200, "", "response") EXCEPT
                             !.success = TRUE,
                             !.eventsProcessed = Len(validation.data.v["events"].v),
                             !.fileId = filename],
              files |-> Put(files, filename, processedData(clientIP, validation.data))]

\* The 429 of rateLimit, lines 51-54.
tooManyRequests(clientIP, req) ==
    Answer(clientIP, req, 429, "Rate limit exceeded. Please try again later.", "limiter")

Request_uncounted(clientIP, req, random, diskOk) ==
    LET limiter == rateLimit(clientIP)
        post == postTelemetry(clientIP, req, random, diskOk)
    IN  /\ requestCounts' = IF limiter.next /\ post.answer.status = 200
                            THEN limiter.counts ELSE requestCounts
        /\ quota' = [quota EXCEPT ![clientIP] = Arrived(@, limiter.next)]
        /\ burst' = [burst EXCEPT ![clientIP].passed = @ + IF limiter.next THEN 1 ELSE 0]
        /\ handled' = IF limiter.next THEN post.answer ELSE tooManyRequests(clientIP, req)
        /\ files' = IF limiter.next THEN post.files ELSE files
        /\ clock' = clock
        /\ UNCHANGED clientVars

\* One request to /api/telemetry with a body express.json has parsed (a body
\* it refuses never reaches the limiter): rateLimit, and the handler if the
\* limiter calls next().
Request(clientIP, req, random, diskOk) ==
    LET limiter == rateLimit(clientIP)
        post == postTelemetry(clientIP, req, random, diskOk)
    IN  /\ requestCounts' = limiter.counts
        /\ quota' = [quota EXCEPT ![clientIP] = Arrived(@, limiter.next)]
        /\ burst' = [burst EXCEPT ![clientIP].passed = @ + IF limiter.next THEN 1 ELSE 0]
        /\ handled' = IF limiter.next THEN post.answer ELSE tooManyRequests(clientIP, req)
        /\ files' = IF limiter.next THEN post.files ELSE files
        /\ clock' = clock
        /\ UNCHANGED clientVars

\* ------------------------------------------------ the server: the limiter
\* The manager of an installation with telemetry off: it sends nothing.
ClientOff ==
    /\ now = StartTime
    /\ isEnabled = FALSE
    /\ firstActivation = 0
    /\ file = NoFile
    /\ activeDays = {}
    /\ retryCount = 0
    /\ submissionTimer = "null"
    /\ retryTimer = "null"
    /\ timers = EmptyBag
    /\ tasks = EmptyBag
    /\ calls = [left |-> 0, dropped |-> 0, tracked |-> 0]
    /\ cycle = Impure

\* Callers that hammer the endpoint with a body the validator refuses, so
\* that the limiter alone decides what they are answered.
EmptyBody == [json |-> TRUE, body |-> Obj(<<>>)]
Budget(clientIP) ==
    IF clientIP = "client-a" \/ clientIP \notin DOMAIN requestCounts
    THEN TRUE
    ELSE requestCounts[clientIP].count < OtherRequests

LimiterRequest(clientIP) ==
    Budget(clientIP) /\ Request(clientIP, EmptyBody, "00000000", TRUE)

InitLimiter == ClientOff /\ InitServer

NextLimiter ==
    \/ \E clientIP \in Identities : LimiterRequest(clientIP)
    \/ Advance

SpecLimiter == InitLimiter /\ [][NextLimiter]_vars

\* --------------------------------------------------- the server: the gate
\* A batch as the extension sends it (TelemetryManager.ts, sendToBackend).
Batch(events) ==
    Obj([sessionId |-> Str("session-1"),
         extensionVersion |-> Str("1.0.0"),
         vscodeVersion |-> Str("1.80.0"),
         platform |-> Str("linux"),
         weekStart |-> Str("2025-09-29"),
         events |-> Arr(events),
         aggregatedStats |-> Obj([totalThoughts |-> Num(1)])])
GoodEvent ==
    Obj([eventType |-> Str("thought_created"),
         timestamp |-> Str("2025-10-01T10:00:00.000Z"),
         anonymousId |-> Str("3f2a9c1e-machine"),
         metadata |-> Obj([thoughtType |-> Str("note"), hasCodeSnippet |-> Bool(TRUE)])])
GoodBody == [json |-> TRUE, body |-> Batch(<<GoodEvent>>)]
NotJson == [json |-> FALSE, body |-> Obj(<<>>)]

\* One caller sending bodies the handler accepts and bodies it refuses, up to
\* and beyond its quota, within one window.
GateRequests == {GoodBody, EmptyBody, NotJson}
GateRequest(req) == Request("client-a", req, "00000000", TRUE)

InitGate == ClientOff /\ InitServer

NextGate == \E req \in GateRequests : GateRequest(req)

SpecGate == InitGate /\ [][NextGate]_vars

\* ------------------------------------- the server: the bodies it is sent
\* Events a caller may put into a batch, GoodEvent changed in one place.
With(event, key, value) == Obj([event.v EXCEPT ![key] = value])
Without(object, key) == Obj([k \in DOMAIN object.v \ {key} |-> object.v[k]])
Plus(object, key, value) == Obj((key :> value) @@ object.v)
PlainEvent == With(Without(GoodEvent, "metadata"), "eventType", Str("graph_opened"))

\* events the validator is to refuse
EventsLacking ==
    {Without(GoodEvent, "eventType"), Without(GoodEvent, "timestamp"),
     Without(GoodEvent, "anonymousId"),
     With(GoodEvent, "eventType", Str("")), With(GoodEvent, "timestamp", Null),
     With(GoodEvent, "anonymousId", Num(0)),
     Null, Num(7), Str("thought_created"), Arr(<<>>)}
EventsOffWhitelist ==
    {With(GoodEvent, "eventType", Str("file_saved")),
     With(GoodEvent, "eventType", Num(5)),
     With(GoodEvent, "eventType", Text(<<"graph_opened", "<">>, 0)),
     With(GoodEvent, "eventType", Text(<<"thought", "&", "_created">>, 0))}
\* events whose anonymousId is no plain short string
EventsOddId ==
    {With(PlainEvent, "anonymousId", Text(<<"o", "'", "brien">>, 0)),
     With(PlainEvent, "anonymousId", Text(<<"u">>, 1200)),
     With(PlainEvent, "anonymousId", Text(<<"<", ">">>, 0)),
     With(PlainEvent, "anonymousId", Num(42))}
\* events that carry more than the four declared properties, or a metadata
\* that is more, or less, than an object of whitelisted fields
EventsOddMetadata ==
    {Plus(GoodEvent, "filePath", Str("/home/user/notes.md")),
     With(GoodEvent, "metadata",
          Obj([thoughtType |-> Str("note"), resultCount |-> Num(3),
               searchTerm |-> Str("password"), fileName |-> Str("notes.md")])),
     With(GoodEvent, "metadata",
          Obj([thoughtType |-> Obj([text |-> Str("a whole thought")])])),
     With(GoodEvent, "metadata", Obj([fileName |-> Str("notes.md")])),
     With(GoodEvent, "metadata", Arr(<<Str("note")>>)),
     With(GoodEvent, "metadata", Str("note")),
     With(GoodEvent, "metadata", Num(0)),
     With(GoodEvent, "metadata", Null)}

ManyPlainEvents(n) == [i \in 1..n |-> PlainEvent]

\* Batches: as the extension sends them, and with one thing wrong: a field
\* missing, events that are no array, too many events, too many characters,
\* one odd event before or after good ones, or a field too many.
BatchesAsSent == {Batch(<<>>), Batch(<<GoodEvent>>), Batch(<<GoodEvent, PlainEvent>>)}
BatchesLackingField == {Without(Batch(<<GoodEvent>>), field) : field \in RequiredFields}
BatchesOddEvents ==
    {With(Batch(<<>>), "events", value) :
        value \in {Null, Obj([length |-> Num(1)]), Str("thought_created")}}
BatchesTooBig ==
    {Batch(ManyPlainEvents(1000 + 1)),
     With(Batch(<<GoodEvent>>), "platform", Text(<<"linux">>, 500000))}
BatchesOneOdd ==
    UNION {{Batch(<<event>>), Batch(<<event, GoodEvent>>), Batch(<<PlainEvent, GoodEvent, event>>)} :
              event \in EventsLacking \cup EventsOffWhitelist \cup EventsOddId
                        \cup EventsOddMetadata}
\* batches with fields of the caller's own, and with fields the server sets
BatchesExtraField ==
    {Plus(Batch(<<GoodEvent>>), "userEmail", Str("user@example.org")),
     Plus(Plus(Batch(<<PlainEvent>>), "receivedAt", Str("1999-01-01T00:00:00.000Z")),
          "ipHash", Str("203.0.113.7"))}

ServerRequests ==
    {[json |-> TRUE, body |-> body] :
        body \in BatchesAsSent \cup BatchesLackingField \cup BatchesOddEvents
                 \cup BatchesTooBig \cup BatchesOneOdd \cup BatchesExtraField}
ServerRequest(req) ==
    /\ "client-a" \in DOMAIN requestCounts => requestCounts["client-a"].count < MaxRequests
    /\ Request("client-a", req, "00000000", TRUE)

InitValidator == ClientOff /\ InitServer

NextValidator == \E req \in ServerRequests : ServerRequest(req)

SpecValidator == InitValidator /\ [][NextValidator]_vars

\* ------------------------------------------------ the server: the records
\* One caller sending batches the validator lets through, and one it refuses;
\* randomBytes may repeat itself and the disk may fail.
StorageRequests ==
    {GoodBody, EmptyBody, [json |-> TRUE, body |-> Batch(<<PlainEvent, PlainEvent>>)],
     [json |-> TRUE, body |-> Batch(<<PlainEvent, PlainEvent>>)],
     [json |-> TRUE, body |-> Batch(<<With(PlainEvent, "anonymousId", Num(42))>>)],
     [json |-> TRUE, body |-> Batch(<<With(GoodEvent, "metadata", Str("note"))>>)]}
RandomBytes == {"00000000", "ffffffff"}
StorageRequest(req, random, diskOk) ==
    /\ "client-a" \in DOMAIN requestCounts => requestCounts["client-a"].count < MaxRequests + 1
    /\ Request("client-a", req, random, diskOk)

InitStorage == ClientOff /\ InitServer

NextStorage ==
    \E req \in StorageRequests, random \in RandomBytes, diskOk \in BOOLEAN :
        StorageRequest(req, random, diskOk)

SpecStorage == InitStorage /\ [][NextStorage]_vars

\* ------------------------------------------------ the server: GET /api/stats
\* A file of DATA_DIR that JSON.parse (or readFile) refuses, written at `time`.
Unreadable(time) == [t |-> "garbage", written |-> time]
Written(content) ==
    IF content.t = "garbage" THEN content.written ELSE content.v["receivedAt"].v

\* The order of two file names, date first, then the random part.
NameAfter(m, n) == m[1] > n[1] \/ (m[1] = n[1] /\ m[2] > n[2])

\* readdir lists the directory in an order the file system chooses: here by
\* name, or in the order the files were written.
Listings == {"by name", "by time"}
ListedAfter(order, m, n) ==
    IF order = "by name" THEN NameAfter(m, n)
    ELSE \/ Written(files[m]) > Written(files[n])
         \/ Written(files[m]) = Written(files[n]) /\ NameAfter(m, n)

\* telemetryFiles.slice(-50), line 271: the last 50 names of the listing
lastFiles(order) ==
    {n \in DOMAIN files :
        Cardinality({m \in DOMAIN files : ListedAfter(order, m, n)}) < 50}

\* Lines 272-274 succeed for a file: it is read, parsed, and has events.
Countable(content) ==
    /\ content.t = "obj"
    /\ Has(content, "events")
    /\ content.v["events"].t = "arr"
    /\ \A i \in DOMAIN content.v["events"].v : content.v["events"].v[i] # Null

\* The loop of lines 271-292 over the files `scanned`, and the answer's body.
aggregate(scanned) ==
    LET counted == {n \in scanned : Countable(files[n])}
        events == UNION {{<<n, i>> : i \in DOMAIN files[n].v["events"].v} : n \in counted}
        typeOf(p) == Get(files[p[1]].v["events"].v[p[2]], "eventType")
    IN  [totalSubmissions |-> Cardinality(DOMAIN files),
         totalEvents |-> Cardinality(events),
         eventTypes |-> [ty \in {typeOf(p) : p \in events} |->
                            Cardinality({p \in events : typeOf(p) = ty})],
         platforms |-> [pl \in {Get(files[n], "platform") : n \in counted} |->
                           Cardinality({n \in counted : Get(files[n], "platform") = pl})],
         versions |-> [ve \in {Get(files[n], "extensionVersion") : n \in counted} |->
                          Cardinality({n \in counted : Get(files[n], "extensionVersion") = ve})]]

\* GET /api/stats, lines 259-307, with the listing readdir returns.
Stats(order) ==
    /\ handled' = [ip |-> "", req |-> NoAnswer.req, status |-> 200, success |-> TRUE,
                   error |-> "", eventsProcessed |-> 0, fileId |-> <<>>,
                   reached |-> "stats", stats |-> aggregate(lastFiles(order))]
    /\ UNCHANGED <<clock, requestCounts, files, quota, burst>>
    /\ UNCHANGED clientVars

\* A server that has run for an hour and stored 50 submissions in it, one of
\* them in a file that was damaged since; more submissions arrive.
StoredRecord(time) ==
    Obj([receivedAt |-> [t |-> "date", v |-> time],
         serverVersion |-> Str("1.0.0"),
         ipHash |-> hashAnonymousId(Str("client-b"))]
        @@ sanitizeTelemetryData(Batch(<<PlainEvent>>)).v)
StoredFiles ==
    [name \in {<<0, 2 * i>> : i \in 1..50} |->
        IF name[2] = 2 * 7 THEN Unreadable(name[2] * 1000) ELSE StoredRecord(name[2] * 1000)]
StatsBodies ==
    {GoodBody, EmptyBody, [json |-> TRUE, body |-> Batch(<<PlainEvent, PlainEvent>>)],
     [json |-> TRUE, body |-> With(Batch(<<GoodEvent, PlainEvent>>), "platform", Str("darwin"))]}
Submission(req, random) ==
    /\ "client-a" \in DOMAIN requestCounts => requestCounts["client-a"].count < MaxRequests
    /\ Request("client-a", req, random, TRUE)

InitStats ==
    /\ ClientOff
    /\ clock = Hour
    /\ requestCounts = <<>>
    /\ files = StoredFiles
    /\ handled = NoAnswer
    /\ quota = [ip \in Identities |->
                   [open |-> FALSE, opened |-> 0, passed |-> 0,
                    rejected |-> FALSE, after |-> FALSE]]
    /\ burst = [ip \in Identities |-> [from |-> 0, passed |-> 0]]

NextStats ==
    \/ \E req \in StatsBodies, random \in {1, 51, 101} : Submission(req, random)
    \/ \E order \in Listings : Stats(order)

SpecStats == InitStats /\ [][NextStats]_vars

\* ------------------------------------------------------------- properties
Count(bag, S) == BagCardinality([x \in S |-> bag[x]])
RetryPending(tm) == Count(tm, RetryTimers(tm))
RegularTimers(tm) == {x \in BagToSet(tm) : x.kind \in {"once", "interval"}}
InFlight(pcs) == Count(tasks, {r \in Running : r.pc \in pcs})
SumStats(data) ==
    data.stats["thought_created"] + data.stats["graph_opened"]
    + data.stats["suggest_related_used"] + data.stats["semantic_search_used"]
    + data.stats["semantic_ai_graph_used"]
IsPrefix(s, t) == Len(s) <= Len(t) /\ \A i \in 1..Len(s) : s[i] = t[i]

\* C1: a trackEvent call that starts while telemetry is disabled returns
\* without reading or writing the batch file (no file operation is started and
\* the file is as before) and without changing activeDays.
C1_DisabledTrackEventLeavesNoTrace ==
    [][(~isEnabled /\ \E eventType \in TrackTypes : trackEvent(eventType))
        => (file' = file /\ activeDays' = activeDays /\ tasks' = tasks)]_vars

\* a trackEvent call has returned early and there is still no batch file
C1_Witness == calls.dropped > 0 /\ ~isEnabled /\ ~file.exists

\* C2: once updateTelemetryStatus(false) has completed (telemetry is disabled
\* and no disable is waiting for its delete), the batch file does not exist.
C2_NoFileWhileDisabled ==
    (~isEnabled /\ At("dis_del") = {}) => ~file.exists

\* C3: while telemetry is disabled no regular and no retry timer is pending.
C3_NoTimerWhileDisabled ==
    ~isEnabled => timers = EmptyBag

\* C4: no request is issued to the ingestion endpoint at a moment when
\* isEnabled is false (a request is issued when a submission enters `send`).
C4_NoRequestWhileDisabled ==
    [][InFlight({"send"})' > InFlight({"send"}) => isEnabled]_vars

\* C5: at most one submission is between reading the batch and clearing it,
\* so no two submissions in progress carry the same batch content.
C5_OneSubmissionInProgress ==
    /\ InFlight({"sub_read", "send", "clear"}) <= 1
    /\ \A r1, r2 \in At("send") \cup At("clear") : r1.data = r2.data => r1 = r2

\* C6: once the overlapping trackEvent calls have all finished, every tracked
\* event is in the persisted batch and every counter increment is kept.
C6_NoLostUpdate ==
    InFlight({"tr_read", "tr_write"}) = 0 =>
        /\ file.exists
        /\ Len(file.events) = Len(StoreFile.events) + calls.tracked
        /\ SumStats(file) = SumStats(StoreFile) + calls.tracked

\* C7: every regular (non-retry) submission attempt starts at an instant
\* firstActivation + k * SUBMISSION_INTERVAL with k >= 1.
C7_RegularAttemptsOnSchedule ==
    [][(\E x \in Pending : FireOnce(x) \/ FireInterval(x))
        => /\ now > firstActivation
           /\ (now - firstActivation) % (24 * Hour) = 0]_vars

\* C8: after a successful submission on an enabled manager whose schedule has
\* been set up, the batch file does not exist, retryCount is 0, no retry timer
\* is pending and the regular timer is armed (or the one-shot callback that
\* arms the recurring timer is still running).
ScheduleSetUp == isEnabled /\ {r \in Running : r.kind \in {"init", "enable"}} = {}
ClaimedDelays == <<30 * 60 * 1000, 2 * Hour, 6 * Hour>>
C11_NoRetryAfterValidationError ==
    [][\A r \in Running :
         SendDone(r, 400) => /\ RetryTimers(timers') \subseteq RetryTimers(timers)
                             /\ RetryPending(timers') <= RetryPending(timers)]_vars

\* C12: every batch the client transmits passes the ceilings of the server's
\* validator: the batch of a request in flight, as sendToBackend truncated it
\* or left it, is neither too large nor has too many events.
C12_TransmittedBatchPassesCeilings ==
    \A r \in At("send") :
        /\ ~payloadTooLarge(payloadSize(r.data))
        /\ ~tooManyEvents(Len(r.data.events))

\* C13: for each caller identity the first RATE_LIMIT requests of a window pass
\* the limiter and every further request of that window is answered 429: a
\* request is rejected exactly when RATE_LIMIT requests of the identity have
\* passed in its current window, and the entry's count is the number of
\* requests passed in the current window, never above RATE_LIMIT.
C13_QuotaPerWindow ==
    /\ \A ip \in Identities :
         /\ quota[ip].passed <= RATE_LIMIT
         /\ quota[ip].open <=> ip \in DOMAIN requestCounts
         /\ quota[ip].open =>
               /\ requestCounts[ip].count = quota[ip].passed
               /\ requestCounts[ip].windowStart = quota[ip].opened
    /\ handled.status # 0 =>
         /\ handled.status = 429 => quota[handled.ip].passed = RATE_LIMIT
         /\ handled.status # 429 => quota[handled.ip].passed >= 1
C13_Witness ==
    /\ handled.ip = "client-a" /\ handled.status = 429
    /\ requestCounts["client-a"].count = RATE_LIMIT
    /\ "client-b" \in DOMAIN requestCounts
    /\ requestCounts["client-b"].count = 1

\* C14: in every time interval of length RATE_WINDOW, wherever it starts, at
\* most RATE_LIMIT requests of one caller identity pass the limiter: the
\* requests passed since an instant less than RATE_WINDOW ago never number
\* more than RATE_LIMIT.
C14_AnyIntervalOfWindowLength ==
    \A ip \in Identities :
        clock - burst[ip].from < RATE_WINDOW => burst[ip].passed <= RATE_LIMIT

\* C15: a request of an identity that arrives more than RATE_WINDOW after the
\* identity's windowStart is passed and leaves the entry at count 1 and
\* windowStart now, also when the identity's requests were being rejected; a
\* rejected request changes nothing in the Map.
C15_RolloverResets ==
    [][\A ip \in Identities :
         LimiterRequest(ip) =>
             /\ (/\ ip \in DOMAIN requestCounts
                 /\ clock - requestCounts[ip].windowStart > RATE_WINDOW)
                => /\ handled'.status # 429
                   /\ requestCounts'[ip] = [count |-> 1, windowStart |-> clock]
             /\ handled'.status = 429 => requestCounts' = requestCounts]_vars
C15_Witness ==
    /\ handled.ip = "client-a" /\ handled.status = 400
    /\ quota["client-a"].after
    /\ requestCounts["client-a"] = [count |-> 1, windowStart |-> clock]

\* C16: a request the limiter rejects is answered 429 without reaching the
\* handler (nothing is validated, sanitized or written); a request is answered
\* 429 only when the identity's quota is used up; and every other request
\* counts against the quota, whatever the handler answers it.
C16_RejectedBeforeHandler ==
    [][\A req \in GateRequests :
         GateRequest(req) =>
             LET known == "client-a" \in DOMAIN requestCounts
                 full == known /\ requestCounts["client-a"].count >= RATE_LIMIT
             IN  /\ handled'.status = 429 <=> full
                 /\ full => /\ handled'.reached = "limiter"
                            /\ files' = files
                            /\ requestCounts' = requestCounts
                 /\ ~full => /\ handled'.reached # "limiter"
                             /\ "client-a" \in DOMAIN requestCounts'
                             /\ requestCounts'["client-a"].count =
                                   IF known THEN requestCounts["client-a"].count + 1 ELSE 1]_vars
C16_Witness ==
    /\ handled.status = 429 /\ handled.req = GoodBody
    /\ requestCounts["client-a"].count = RATE_LIMIT
    /\ Cardinality(DOMAIN files) = 1

\* What C17 calls a batch that must be refused: a required field is missing,
\* events is no array or has more than 1000 entries, or some event is null,
\* no object, or has no (or an empty) eventType, timestamp or anonymousId.
C17_Lacking(event) ==
    \/ event.t # "obj"
    \/ \E key \in {"eventType", "timestamp", "anonymousId"} :
          key \notin DOMAIN event.v \/ ~Truthy(event.v[key])
C17_Malformed(body) ==
    \/ body.t # "obj"
    \/ \E field \in RequiredFields : field \notin DOMAIN body.v
    \/ /\ body.t = "obj" /\ "events" \in DOMAIN body.v
       /\ \/ body.v["events"].t # "arr"
          \/ /\ body.v["events"].t = "arr"
             /\ \/ Len(body.v["events"].v) > 1000
                \/ \E i \in DOMAIN body.v["events"].v : C17_Lacking(body.v["events"].v[i])

\* C17: a batch that is missing a required field, whose events is no array or
\* has more than 1000 entries, or that holds, at any position, an event
\* without eventType, timestamp or anonymousId (null and non-object events
\* included) is answered 400 and no record file is written.
C17_MalformedBatchRefused ==
    [][(ServerRequest(handled'.req) /\ C17_Malformed(handled'.req.body))
          => (handled'.status = 400 /\ files' = files)]_vars

\* The batches C18 is about: events is an array and some event in it is an
\* object whose eventType, as the caller sent it, is none of the five values.
C18_OffWhitelist(body) ==
    /\ body.t = "obj" /\ "events" \in DOMAIN body.v /\ body.v["events"].t = "arr"
    /\ \E i \in DOMAIN body.v["events"].v :
          LET event == body.v["events"].v[i] IN
          /\ event.t = "obj" /\ "eventType" \in DOMAIN event.v
          /\ event.v["eventType"] \notin validEventTypes

\* C18: a batch with an event whose eventType, as received, is not exactly
\* one of the five whitelisted values is answered 400 and nothing is written.
C18_OnlyWhitelistedTypes ==
    [][(ServerRequest(handled'.req) /\ C18_OffWhitelist(handled'.req.body))
          => (handled'.status = 400 /\ files' = files)]_vars

\* What the caller sees of an answer, and the bodies that do not come out of
\* validateTelemetryData as valid.
C19_Response(answer) ==
    [status |-> answer.status, success |-> answer.success, error |-> answer.error,
     eventsProcessed |-> answer.eventsProcessed, fileId |-> answer.fileId]
C19_FailsValidation(req) ==
    req.json /\ validateTelemetryData(req.body).outcome # "valid"

\* C19: any two bodies that fail validation are answered alike, with status
\* 400 and the error 'Invalid data format': the answer to a body that fails
\* validation is that one, and equals the answer the body before it got if
\* that failed validation too.
C19_SameAnswerForAllFailures ==
    [][(ServerRequest(handled'.req) /\ C19_FailsValidation(handled'.req))
          => /\ handled'.status = 400 /\ handled'.error = "Invalid data format"
             /\ (handled.status # 0 /\ C19_FailsValidation(handled.req))
                   => C19_Response(handled') = C19_Response(handled)]_vars

\* The events of the body answered last and of the record written for it.
C20_Sent == handled.req.body.v["events"].v
C20_Kept == files[handled.fileId].v["events"].v
C20_NoSessionId == \A name \in DOMAIN files : "sessionId" \notin DOMAIN files[name].v

\* C20: a persisted record has no sessionId, and the anonymousId of each of
\* its events is the hash of the anonymousId submitted for that event: it
\* differs from the submitted value, and events submitted with the same
\* anonymousId are stored with the same value.
C20_StoredIdIsHashOfSubmitted ==
    /\ C20_NoSessionId
    /\ handled.status = 200 =>
         /\ Len(C20_Kept) = Len(C20_Sent)
         /\ \A i \in DOMAIN C20_Sent :
              /\ C20_Kept[i].v["anonymousId"] = hashAnonymousId(C20_Sent[i].v["anonymousId"])
              /\ C20_Kept[i].v["anonymousId"] # C20_Sent[i].v["anonymousId"]
         /\ \A i, j \in DOMAIN C20_Sent :
              C20_Sent[i].v["anonymousId"] = C20_Sent[j].v["anonymousId"]
                 => C20_Kept[i].v["anonymousId"] = C20_Kept[j].v["anonymousId"]

\* C20 as the code has it: the stored anonymousId is the hash of the
\* submitted value after sanitizeInput (the characters < > " ' & removed,
\* then cut to 1000 characters).
C20_StoredIdIsHashOfSanitized ==
    /\ C20_NoSessionId
    /\ handled.status = 200 =>
         /\ Len(C20_Kept) = Len(C20_Sent)
         /\ \A i \in DOMAIN C20_Sent :
              /\ C20_Kept[i].v["anonymousId"] =
                    hashAnonymousId(sanitizeInput(C20_Sent[i].v["anonymousId"]))
              /\ C20_Kept[i].v["anonymousId"] # C20_Sent[i].v["anonymousId"]
         /\ \A i, j \in DOMAIN C20_Sent :
              C20_Sent[i].v["anonymousId"] = C20_Sent[j].v["anonymousId"]
                 => C20_Kept[i].v["anonymousId"] = C20_Kept[j].v["anonymousId"]
C20_Witness ==
    /\ handled.status = 200
    /\ "sessionId" \in DOMAIN handled.req.body.v
    /\ \E i, j \in DOMAIN C20_Sent :
          /\ i # j
          /\ C20_Sent[i].v["anonymousId"] = C20_Sent[j].v["anonymousId"]
    /\ \E i \in DOMAIN C20_Sent :
          sanitizeInput(C20_Sent[i].v["anonymousId"]) # C20_Sent[i].v["anonymousId"]

\* C21: in every persisted record each event has only the keys eventType,
\* timestamp, anonymousId and metadata, and its metadata only whitelisted
\* keys; the metadata stored for an event holds exactly the whitelisted
\* fields that were submitted for it, with the values submitted.
C21_OnlyWhitelistedMetadata ==
    /\ \A name \in DOMAIN files :
         \A i \in DOMAIN files[name].v["events"].v :
             LET event == files[name].v["events"].v[i] IN
             /\ DOMAIN event.v \subseteq {"eventType", "timestamp", "anonymousId", "metadata"}
             /\ "metadata" \in DOMAIN event.v =>
                   /\ event.v["metadata"].t = "obj"
                   /\ DOMAIN event.v["metadata"].v \subseteq
                         {"thoughtType", "hasCodeSnippet", "searchTermLength", "resultCount"}
    /\ handled.status = 200 =>
         \A i \in DOMAIN C20_Sent :
             LET sent == Get(C20_Sent[i], "metadata")
                 kept == Get(C20_Kept[i], "metadata")
             IN  \A key \in {"thoughtType", "hasCodeSnippet", "searchTermLength",
                              "resultCount"} :
                     /\ Has(kept, key) <=> Has(sent, key)
                     /\ Has(kept, key) => kept.v[key] = sent.v[key]
C21_Witness ==
    /\ handled.status = 200
    /\ \E i \in DOMAIN C20_Sent :
          LET sent == Get(C20_Sent[i], "metadata") IN
          /\ Has(sent, "searchTerm") /\ Has(sent, "resultCount")
          /\ Get(C20_Kept[i], "metadata").v["resultCount"] = Num(3)
          /\ ~Has(Get(C20_Kept[i], "metadata"), "searchTerm")

\* C22: a persisted record holds no field of the caller's other than the
\* declared batch fields: its top-level keys are among extensionVersion,
\* vscodeVersion, platform, weekStart, events, aggregatedStats, receivedAt,
\* serverVersion and ipHash.
C22_OnlyDeclaredFields ==
    \A name \in DOMAIN files :
        DOMAIN files[name].v \subseteq
            {"extensionVersion", "vscodeVersion", "platform", "weekStart", "events",
             "aggregatedStats", "receivedAt", "serverVersion", "ipHash"}

\* C23: each accepted submission creates exactly one new record file and
\* leaves every record file that exists as it is, whatever randomBytes
\* returns: with every 200 there is one file more, and no file has changed.
C23_OneNewFilePerSubmission ==
    [][(handled'.status = 200 /\
        \E random \in RandomBytes : StorageRequest(handled'.req, random, TRUE))
          => /\ Cardinality(DOMAIN files') = Cardinality(DOMAIN files) + 1
             /\ \A name \in DOMAIN files : files'[name] = files[name]]_vars

\* C24: a JSON batch that satisfies all rules of the validator and passes the
\* limiter is answered 200 with success true, eventsProcessed the number of
\* events submitted and a fileId that names the record written; a 200 is only
\* given when the record is written; if the write fails the answer is 500.
C24_ValidBatchAccepted ==
    [][\A req \in StorageRequests, random \in RandomBytes, diskOk \in BOOLEAN :
         StorageRequest(req, random, diskOk) =>
             LET valid == req.json /\ validateTelemetryData(req.body).outcome = "valid"
             IN  /\ (valid /\ diskOk) =>
                       /\ handled'.status = 200 /\ handled'.success
                       /\ handled'.eventsProcessed = Len(req.body.v["events"].v)
                 /\ handled'.status = 200 =>
                       /\ handled'.fileId \in DOMAIN files'
                       /\ files'[handled'.fileId].v["events"].t = "arr"
                       /\ Len(files'[handled'.fileId].v["events"].v)
                             = handled'.eventsProcessed
                 /\ (valid /\ ~diskOk) =>
                       /\ handled'.status = 500
                       /\ files' = files]_vars

\* The events of a batch that are newer than t minus the retention window of
\* 7 days, in their order.
RECURSIVE C25_Newer(_, _)
C25_Newer(events, t) ==
    IF events = <<>> THEN <<>>
    ELSE (IF t - Head(events).timestamp < 7 * DayMs THEN <<Head(events)>> ELSE <<>>)
         \o C25_Newer(Tail(events), t)

C26_Outdated(events, t) == \E i \in DOMAIN events : t - events[i].timestamp > 7 * DayMs

\* C26: while telemetry is enabled, once the cleaning at start-up is done, the
\* local batch file never holds an event older than 7 days and no batch with
\* such an event is in transmission.
C26_NothingBeyondRetention ==
    (isEnabled /\ \A r \in Running : r.kind # "init") =>
        /\ file.exists => ~C26_Outdated(file.events, now)
        /\ \A r \in At("send") : ~C26_Outdated(r.data.events, now)

\* C27: telemetryFirstActivation is written once, by a schedule setup that
\* finds it absent, with the time of that setup, and never changes afterwards,
\* whatever is switched, submitted or retried.
C27_FirstActivationWrittenOnce ==
    [][/\ firstActivation' # firstActivation =>
             /\ firstActivation = 0
             /\ firstActivation' = now
             /\ \E r \in Running : EnableDir(r) \/ InitRead(r) \/ InitWrite(r)
       /\ \A r \in Running :
             (EnableDir(r) /\ firstActivation = 0) => firstActivation' = now]_vars
C27_Witness ==
    /\ isEnabled /\ calls.left < MaxCalls
    /\ firstActivation >= StartTime /\ now > firstActivation
    /\ submissionTimer = "live" /\ tasks = EmptyBag

\* The 50 record files written last.
C28_MostRecent ==
    {n \in DOMAIN files :
        Cardinality({m \in DOMAIN files : Written(files[m]) > Written(files[n])}) < 50}

\* C28: GET /api/stats answers 200 with the aggregate over the 50 most recent
\* record files, in which a file that cannot be read or parsed counts for
\* nothing and every other one of them is counted in full.
C28_StatsOverMostRecent ==
    handled.reached = "stats" =>
        /\ handled.status = 200
        /\ handled.stats = aggregate(C28_MostRecent)

\* The instants firstActivation + k * INTERVAL, k >= 1, up to the one past t.
C29_Boundaries(fa, t) ==
    {fa + k * SUBMISSION_INTERVAL : k \in 1..((t - fa) \div SUBMISSION_INTERVAL + 2)}

C29_ArmedAtBoundary ==
    /\ now = EarlierActivation + 48 * Hour
    /\ firstActivation = EarlierActivation
    /\ Timer("once", EarlierActivation + 72 * Hour, "s") \in BagToSet(timers)

\* C30: at any time at most one regular submission timer, the one-shot or the
\* recurring one, is pending, whatever the interleaving of enabling, disabling
\* and timer callbacks suspended in a probe or a submission.
C30_OneRegularTimer ==
    Count(timers, RegularTimers(timers)) <= 1

\* The retry timers pending in `tm` that are due at `due`, held or not.
C31_Retries(tm, due) ==
    CopiesIn(Timer("retry", due, "r"), tm) + CopiesIn(Timer("retry", due, "-"), tm)

\* C31: a timer-driven invocation reaches submitTelemetryData only from its
\* connectivity probe, when the probe succeeded; and when the probe of a
\* regular attempt fails, the invocation ends without a submit, retryCount is
\* 0 and a retry timer is armed with RETRY_DELAYS[0].
C31_SubmitOnlyAfterProbe ==
    [][/\ \A t \in BagToSet(tasks') :
            (/\ t.kind \in {"once", "interval", "retry"}
             /\ t.pc = "sub_read"
             /\ CopiesIn(t, tasks') > CopiesIn(t, tasks)) =>
                \E r \in Running : r.kind = t.kind /\ r.pc = "probe" /\ ProbeOk(r)
       /\ \A r \in Running :
            (r.kind \in {"once", "interval"} /\ ProbeFailed(r)) =>
                /\ retryCount' = 0
                /\ C31_Retries(timers', now + RETRY_DELAYS[1])
                      = C31_Retries(timers, now + RETRY_DELAYS[1]) + 1
                /\ Timer("retry", now + RETRY_DELAYS[1], "r") \in BagToSet(timers')
                /\ \A t \in BagToSet(tasks') :
                      t.pc \in {"sub_read", "send"} => CopiesIn(t, tasks') <= CopiesIn(t, tasks)]_vars

\* The events of type `ty` in a batch.
C32_Events(data, ty) ==
    Cardinality({i \in 1..Len(data.events) : data.events[i].eventType = ty})

\* Each per-type counter of the batch file is at least the number of events
\* of its type in the file.
C32_CountersCoverEvents ==
    \A ty \in EventTypes : file.stats[ty] >= C32_Events(file, ty)

\* C32: the write of a trackEvent call leaves the batch with exactly the
\* call's event appended at the end of its events and with the counter of the
\* event's type, and no other per-type counter, incremented by one; each
\* per-type counter is at least the number of events of its type in the batch.
C32_TrackEventAppendsOne ==
    [][/\ \A r \in Running :
            TrackWrite(r) =>
                /\ file'.events = Append(file.events, r.event)
                /\ \A ty \in EventTypes :
                      file'.stats[ty] = file.stats[ty] + (IF ty = r.event.eventType THEN 1 ELSE 0)
       /\ \A ty \in EventTypes : file'.stats[ty] >= C32_Events(file', ty)]_vars

\* The last n events of a batch of more than n events, in their order.
C33_Last(events, n) == [i \in 1..n |-> events[Len(events) - n + i]]

\* C33: the batch a submission transmits is the batch it read, with its events
\* replaced by the last 500 of them, in their order, when its serialized size
\* is above the threshold of 900000, and unchanged otherwise.
C33_TruncationKeepsLastEvents ==
    [][\A t \in BagToSet(tasks') :
            (t.pc = "send" /\ CopiesIn(t, tasks') > CopiesIn(t, tasks)) =>
                IF payloadSize(file) > 900000
                THEN /\ Len(file.events) > 500
                     /\ t.data = [file EXCEPT !.events = C33_Last(file.events, 500)]
                ELSE t.data = file]_vars

\* A truncated batch in transmission: the events tracked last are its last.
C33_Witness ==
    \E t \in BagToSet(tasks) :
        /\ t.pc = "send"
        /\ payloadSize(file) > 900000
        /\ Len(t.data.events) = 500
        /\ t.data.events[500] = file.events[Len(file.events)]
        /\ t.data.events[500].timestamp = StartTime
        /\ t.data.stats = file.stats

\* C34: at any time at most one retry timer is pending, whatever the
\* interleaving of regular attempts, retry callbacks and manualSubmit calls,
\* so that clearing retryTimer cancels every pending retry.
C34_OneRetryTimer ==
    Count(timers, {x \in BagToSet(timers) : x.kind = "retry"}) <= 1

\* C35: retryCount is between 0 and the length of RETRY_DELAYS, and
\* RETRY_DELAYS is indexed only below its length.
C35_RetryCountInRange ==
    /\ retryCount >= 0
    /\ retryCount <= Len(RETRY_DELAYS)

\* Every retry timer was armed with a delay of the table: scheduleRetry reads
\* RETRY_DELAYS[retryCount] only with retryCount below the table's length.
C35_IndexedInRange ==
    [][\A r \in Running :
          (ProbeFailed(r) \/ (r.pc = "sub_read" /\ SubmitRead(r))
             \/ \E status \in Statuses : SendDone(r, status)) =>
              (Count(timers', {x \in BagToSet(timers') : x.kind = "retry"})
                  > Count(timers, {x \in BagToSet(timers) : x.kind = "retry"})
                  => retryCount < Len(RETRY_DELAYS))]_vars

\* C36: the clear step of a successful submission deletes no event that the
\* submission's request did not contain.
C36_ClearDeletesOnlySent ==
    [][\A r \in Running :
          (r.pc = "clear" /\ SubmitCleared(r)) =>
              \A i \in DOMAIN file.events :
                  \E j \in DOMAIN r.data.events : r.data.events[j] = file.events[i]]_vars

\* The retry timers pending in `tm`.
C37_Retries(tm) == Count(tm, {x \in BagToSet(tm) : x.kind = "retry"})

\* C37: a submission attempt whose read finds no batch file, or a batch with
\* no events, sends no request, arms no retry timer and leaves retryCount
\* unchanged.
C37_NothingToSubmit ==
    [][\A r \in Running :
          (/\ r.pc = "sub_read"
           /\ ~file.exists \/ Len(file.events) = 0
           /\ SubmitRead(r)) =>
              /\ \A t \in BagToSet(tasks') :
                    t.pc = "send" => CopiesIn(t, tasks') <= CopiesIn(t, tasks)
              /\ C37_Retries(timers') <= C37_Retries(timers)
              /\ retryCount' = retryCount]_vars

\* C38: with telemetry left enabled, a non-empty batch, and probes and the
\* server succeeding from some point on, the batch is eventually submitted and
\* the batch file deleted, at the next regular interval when the retries were
\* used up during the outage.
C38_EventuallySubmitted ==
    <>(~file.exists /\ isEnabled)

\* The batch outlived the first regular attempt and its retries, and was
\* submitted by the recurring timer at the next regular instant.
C38_Witness ==
    /\ ~file.exists
    /\ isEnabled
    /\ now = NextRegular + SUBMISSION_INTERVAL
    /\ retryCount = 0

\* C39: while the batch file exists, its uniqueDaysActive counter never
\* decreases, whatever the trackEvent calls, day changes and restarts.
C39_DaysNeverDecrease ==
    [][(file.exists /\ file'.exists) =>
            file'.uniqueDaysActive >= file.uniqueDaysActive]_vars

\* C40: the weekStart of a freshly created batch is the Monday of the week of
\* its creation date: a Monday, not later than the creation date and at most
\* 6 days before it.
C40_WeekStartIsMondayBefore ==
    (file.exists /\ file.events # <<>> /\ file.events[1].timestamp = now) =>
        /\ getUTCDay(file.weekStart) = 1
        /\ file.weekStart <= Today(now)
        /\ Today(now) - file.weekStart <= 6

====
